---- MODULE Spec2Model ----
(***************************************************************************)
(* todoist-export: the /download handler, exportData, the completed-task   *)
(* pagination (fetchCompleted) and the CSV transforms of src/app.js.       *)
(*                                                                         *)
(* JavaScript values are records [t, s]: t is the type tag and s the       *)
(* symbols of the value (the characters of its string form; for an array,  *)
(* its elements).  A string is a sequence of symbols, so that joining,     *)
(* quoting, String.includes and String.replace act on it as they do on     *)
(* characters.                                                             *)
(***************************************************************************)
EXTENDS Integers, Sequences, FiniteSets, TLC

VARIABLES
  pc,            \* position of the request: see the actions
  reqFormat,     \* req.query.format: [present, val]
  format,        \* exportData's local `format`
  syncData,      \* exportData's local `syncData`
  cursor,        \* the cursor of the page request in flight
  pending,       \* page results held by the suspended fetchCompleted calls
  completedData, \* the value fetchCompleted(token) resolved to
  error,         \* the exception in flight to the handler's catch
  res,           \* the HTTP response object
  requests,      \* history: number of tasks/completed requests made
  served,        \* history: records of the pages served so far, in order
  last,          \* history: kind of the last page response
  live,          \* history: items of the snapshot as fetched
  passes         \* history: applications of convertProjectNames

vars == <<pc, reqFormat, format, syncData, cursor, pending, completedData,
          error, res, requests, served, last, live, passes>>

(***************************************************************************)
(* Bounds of the model                                                     *)
(***************************************************************************)
MaxCursor == 2
MaxRecords == 2
MaxPageLen == 1
MaxRequests == 4
MaxFormatLen == 2
MaxItems == 1
MaxProjects == 2
MaxPasses == 2

(***************************************************************************)
(* JavaScript values                                                       *)
(***************************************************************************)
Str(s) == [t |-> "str", s |-> s]

Num(digits) == [t |-> "num", s |-> digits]

Arr(elems) == [t |-> "arr", s |-> elems]

UNDEFINED == [t |-> "undefined", s |-> <<"undefined">>]

NULL == [t |-> "null", s |-> <<"null">>]

TRUEV == [t |-> "bool", s |-> <<"true">>]

FALSEV == [t |-> "bool", s |-> <<"false">>]

ObjectFn == [t |-> "fn", s |-> <<"function Object() { [native code] }">>]

QUOTE == "\""

COMMA == ","

\* ToBoolean
Truthy(v) ==
  /\ v.t \notin {"undefined", "null"}
  /\ ~(v.t = "str" /\ v.s = <<>>)
  /\ ~(v.t = "num" /\ v.s = <<"0">>)
  /\ ~(v = FALSEV)

RECURSIVE Join(_, _)
\* Array.prototype.join over an array of one-symbol strings
Join(elems, sep) ==
  IF Len(elems) = 0 THEN <<>>
  ELSE IF Len(elems) = 1 THEN <<elems[1]>>
  ELSE <<elems[1], sep>> \o Join(Tail(elems), sep)

\* String(v) / v.toString(): the characters of the result
toString(v) == IF v.t = "arr" THEN Join(v.s, COMMA) ELSE v.s

\* x.toString() throws a TypeError on null and undefined
toStringThrows(v) == v.t \in {"undefined", "null"}

\* the properties every object literal inherits from Object.prototype
ObjectPrototype == [k \in {<<"constructor">>} |-> ObjectFn]

\* a slip: projectNames[id] || id
GetPropertyOrKey(obj, key) ==
  LET k == toString(key)
  IN  IF k \in DOMAIN obj THEN obj[k]
      ELSE IF k \in DOMAIN ObjectPrototype THEN ObjectPrototype[k]
      ELSE key

\* obj[key]: own property, else inherited, else undefined
GetProperty(obj, key) ==
  LET k == toString(key)
  IN  IF k \in DOMAIN obj THEN obj[k]
      ELSE IF k \in DOMAIN ObjectPrototype THEN ObjectPrototype[k]
      ELSE UNDEFINED

\* { ...acc, [key]: value }
SetProperty(obj, key, value) ==
  LET k == toString(key)
  IN  [j \in DOMAIN obj \cup {k} |-> IF j = k THEN value ELSE obj[j]]

EmptyObject == [k \in {} |-> UNDEFINED]

(***************************************************************************)
(* The CSV transforms                                                      *)
(***************************************************************************)
RECURSIVE projectNamesOf(_)
\* syncData.projects.reduce(...)
projectNamesOf(projects) ==
  IF Len(projects) = 0 THEN EmptyObject
  ELSE LET n == Len(projects)
       IN  SetProperty(projectNamesOf(SubSeq(projects, 1, n - 1)),
                       projects[n].id, projects[n].name)

convertProjectNames(sd) ==
  LET projectNames == projectNamesOf(sd.projects)
  IN  [i \in 1..Len(sd.items) |->
         [sd.items[i] EXCEPT !.project_id = GetProperty(projectNames, @)]]

RECURSIVE userNamesOf(_)
\* syncData.collaborators.reduce(...)
userNamesOf(collaborators) ==
  IF Len(collaborators) = 0 THEN EmptyObject
  ELSE LET n == Len(collaborators)
       IN  SetProperty(userNamesOf(SubSeq(collaborators, 1, n - 1)),
                       collaborators[n].id, collaborators[n].full_name)

\* userNames[id] || null
OrNull(v) == IF Truthy(v) THEN v ELSE NULL

convertUserNames(sd) ==
  LET userNames == userNamesOf(sd.collaborators)
  IN  [i \in 1..Len(sd.items) |->
         [sd.items[i] EXCEPT
            !.assigned_by_uid = OrNull(GetProperty(userNames, @)),
            !.added_by_uid = OrNull(GetProperty(userNames, @)),
            !.user_id = OrNull(GetProperty(userNames, @))]]

\* item.labels?.length > 0 ? `"${item.labels.join(",")}"` : null
escapeLabels(labels) ==
  IF labels.t = "arr" /\ Len(labels.s) > 0
  THEN Str(<<QUOTE>> \o Join(labels.s, COMMA) \o <<QUOTE>>)
  ELSE NULL

\* `"${item.content.toString()}"`
escapeContent(content) == Str(<<QUOTE>> \o toString(content) \o <<QUOTE>>)

\* item.content.toString() raises for some item
escapeCommasThrows(sd) ==
  \E i \in 1..Len(sd.items) : toStringThrows(sd.items[i].content)

escapeCommas(sd) ==
  [i \in 1..Len(sd.items) |->
     [sd.items[i] EXCEPT !.labels = escapeLabels(@),
                         !.content = escapeContent(@)]]

(***************************************************************************)
(* The data a request meets                                                *)
(***************************************************************************)
MkItem(id, content, labels, project_id) ==
  [id |-> id, content |-> content, labels |-> labels,
   project_id |-> project_id, assigned_by_uid |-> NULL,
   added_by_uid |-> Num(<<"1">>), user_id |-> Num(<<"1">>)]

BuyMilk == Str(<<"buy", " ", "milk">>)

UrgentHome == Arr(<<"urgent", "home">>)

\* live items: the project references, content types and label sets met
ItemDomain ==
  {MkItem(Num(<<"1", "0">>), BuyMilk, UrgentHome, p) :
     p \in {Num(<<"1">>), Num(<<"2">>), Str(<<"1">>), UNDEFINED}}
  \cup {MkItem(Num(<<"1", "1">>), c, UrgentHome, Num(<<"1">>)) :
     c \in {Num(<<"7">>), TRUEV, NULL, UNDEFINED}}
  \cup {MkItem(Num(<<"1", "2">>), BuyMilk, l, Num(<<"1">>)) :
     l \in {UNDEFINED, NULL, Arr(<<>>), Arr(<<"urgent">>)}}

ProjectDomain ==
  {[id |-> i, name |-> n] :
     i \in {Num(<<"1">>), Num(<<"2">>)},
     n \in {Str(<<"Work">>), Str(<<"1">>), Str(<<"constructor">>)}}

\* the live items of the snapshots an export meets: none, one with string
\* content, one with null content
SnapshotItems ==
  {<<>>,
   <<MkItem(Num(<<"1", "0">>), BuyMilk, UrgentHome, Num(<<"1">>))>>,
   <<MkItem(Num(<<"1", "1">>), NULL, UrgentHome, Num(<<"1">>))>>}

Collaborators == <<[id |-> Num(<<"1">>), full_name |-> Str(<<"Ann">>)]>>

\* completed-task records, told apart by their id
CompletedRecords ==
  {MkItem(Num(<<"9", ToString(i)>>), BuyMilk, Arr(<<>>), Num(<<"1">>)) :
     i \in 1..MaxRecords}

SeqsUpTo(S, n) == UNION {[1..k -> S] : k \in 0..n}

NoCompleted == [present |-> FALSE, results |-> <<>>]

NoUser == [present |-> FALSE, is_premium |-> UNDEFINED]

\* what callApi("sync") resolved to: undefined, null or a snapshot object
\* ("unset" while the call has not resolved)
NoData(kind) ==
  [kind |-> kind, user |-> NoUser, items |-> <<>>, projects |-> <<>>,
   collaborators |-> <<>>, completed |-> NoCompleted]

Snapshot(user, items, projects) ==
  [kind |-> "object", user |-> user, items |-> items, projects |-> projects,
   collaborators |-> Collaborators, completed |-> NoCompleted]

Users ==
  {NoUser} \cup {[present |-> TRUE, is_premium |-> f] :
                   f \in {TRUEV, FALSEV, UNDEFINED}}

WorkProject == [id |-> Num(<<"1">>), name |-> Str(<<"Work">>)]

NoError == [present |-> FALSE, name |-> "", message |-> "", status |-> 0]

Thrown(name, message, status) ==
  [present |-> TRUE, name |-> name, message |-> message, status |-> status]

\* what axios rejects with: a non-2xx response or a network fault
UpstreamErrors ==
  {Thrown("AxiosError", "Request failed with status code 401", 401),
   Thrown("AxiosError", "Request failed with status code 503", 0),
   Thrown("AxiosError", "", 0)}

TypeError == Thrown("TypeError", "Cannot read properties", 0)

SyncOutcomes ==
  {[threw |-> TRUE, error |-> e, data |-> NoData("unset")] :
     e \in UpstreamErrors}
  \cup {[threw |-> FALSE, error |-> NoError, data |-> NoData(k)] :
     k \in {"undefined", "null"}}
  \cup {[threw |-> FALSE, error |-> NoError,
         data |-> Snapshot(u, i, <<WorkProject>>)] :
     u \in Users, i \in SnapshotItems}

Cursors == {Str(<<"cursor", ToString(i)>>) : i \in 1..MaxCursor}

\* what one tasks/completed request meets: a rejection, a null body, or a
\* page with an optional results array and an optional cursor
PageResponses ==
  {[kind |-> k, results |-> NoCompleted, next_cursor |-> NULL] :
     k \in {"fail", "null"}}
  \cup {[kind |-> "page", results |-> r, next_cursor |-> c] :
     r \in {NoCompleted} \cup
           {[present |-> TRUE, results |-> q] :
              q \in SeqsUpTo(CompletedRecords, MaxPageLen)},
     c \in {NULL, Str(<<>>)} \cup Cursors}

FormatTokens == {"json", "csv", "_all", "x"}

FORMAT_SUFFIX_INCLUDE_ARCHIVED == "_all"

Formats ==
  {[present |-> FALSE, val |-> <<>>]}
  \cup {[present |-> TRUE, val |-> f] :
          f \in SeqsUpTo(FormatTokens, MaxFormatLen)}

\* String.prototype.includes
includes(str, part) == \E i \in 1..Len(str) : str[i] = part

\* String.prototype.replace(part, ""): the first occurrence only
replace(str, part) ==
  IF ~includes(str, part) THEN str
  ELSE LET i == CHOOSE j \in 1..Len(str) :
                  str[j] = part /\ \A k \in 1..(j - 1) : str[k] # part
       IN  SubSeq(str, 1, i - 1) \o SubSeq(str, i + 1, Len(str))

MsgCouldNotFetch == "Could not fetch data from Todoist."

MsgPremium == "Must be Todoist Premium to export archived items."

MsgCsv == "CSV export error."

MsgUnexpected == "Unexpected error."

DefaultStatus == 500

NoResponse ==
  [sent |-> 0, kind |-> "none", status |-> 0, message |-> "", file |-> ""]

renderErrorPage(r, message, err) ==
  [r EXCEPT !.sent = @ + 1, !.kind = "error",
            !.status = IF err.present /\ err.status # 0
                       THEN err.status ELSE DefaultStatus,
            !.message = message]

\* res.attachment(file) followed by res.json / res.send
sendFile(r, kind, file) ==
  [r EXCEPT !.sent = @ + 1, !.kind = kind, !.file = file,
            !.status = 200]

(***************************************************************************)
(* fetchCompleted                                                          *)
(***************************************************************************)
\* page.results || []
PageResults(page) ==
  IF page.results.present THEN page.results.results ELSE <<>>

\* a slip: remainder.results.concat(page.results || [])
concatReversed(pageResults, remainderResults) ==
  remainderResults \o pageResults

\* (page.results || []).concat(remainder.results)
concat(pageResults, remainderResults) == pageResults \o remainderResults

\* a slip: the failure empties the whole result
onFailureDropsHeld(held) == [present |-> TRUE, results |-> <<>>]

\* catch: return { results: [] }, which the suspended calls prepend to
onFailure(held) == [present |-> TRUE, results |-> concat(held, <<>>)]

\* a slip: if (page.next_cursor !== null)
HasNextCursorNotNull(page) == page.next_cursor # NULL

\* if (page.next_cursor)
HasNextCursor(page) == Truthy(page.next_cursor)

\* One tasks/completed request settles.  The calls suspended at line 218
\* each hold their page; `pending` keeps those pages' results, outermost
\* call first, and the innermost call's return value is prepended with
\* them as the calls return.  The source is free at every request; the
\* records it may still serve are bounded by MaxRecords, and the history
\* counter `requests` stops counting at MaxRequests.
FetchPage ==
  /\ pc = "fetch"
  /\ \E page \in PageResponses :
       /\ Len(pending) + Len(PageResults(page)) <= MaxRecords
       /\ requests' = IF requests < MaxRequests THEN requests + 1
                      ELSE requests
       /\ last' = IF page.kind # "page" THEN page.kind
                  ELSE IF Truthy(page.next_cursor) THEN "more" ELSE "stop"
       /\ served' = IF page.kind = "page" /\ page.results.present
                    THEN served \o page.results.results ELSE served
       /\ IF page.kind = "fail"
          THEN /\ completedData' = onFailure(pending)
               /\ pc' = "fetched"
               /\ UNCHANGED <<cursor, pending, error>>
          ELSE IF page.kind = "null"
          THEN /\ error' = TypeError
               /\ pc' = "catch"
               /\ UNCHANGED <<cursor, pending, completedData>>
          ELSE IF HasNextCursor(page)
          THEN /\ cursor' = page.next_cursor
               /\ pending' = pending \o PageResults(page)
               /\ pc' = "fetch"
               /\ UNCHANGED <<completedData, error>>
          ELSE /\ completedData' =
                    [present |-> TRUE,
                     results |-> concat(pending, PageResults(page))]
               /\ pc' = "fetched"
               /\ UNCHANGED <<cursor, pending, error>>
  /\ UNCHANGED <<reqFormat, format, syncData, res, live, passes>>

(***************************************************************************)
(* exportData and the /download handler                                    *)
(***************************************************************************)
\* await callApi("sync", ...) settles; if (syncData === undefined)
SyncResponse ==
  /\ pc = "sync"
  /\ \E out \in SyncOutcomes :
       IF out.threw
       THEN /\ error' = out.error
            /\ pc' = "catch"
            /\ UNCHANGED <<syncData, live, res>>
       ELSE /\ syncData' = out.data
            /\ live' = out.data.items
            /\ IF out.data.kind = "undefined"
               THEN /\ res' = renderErrorPage(res, MsgCouldNotFetch, NoError)
                    /\ pc' = "done"
               ELSE /\ pc' = "gate"
                    /\ UNCHANGED res
            /\ UNCHANGED error
  /\ UNCHANGED <<reqFormat, format, cursor, pending, completedData,
                 requests, served, last, passes>>

\* a slip: !syncData.user
IsPremiumUserOnly(sd) == sd.user.present

\* !syncData.user.is_premium
IsPremium(sd) == Truthy(sd.user.is_premium)

\* the premium gate; fetchCompleted(token) is called with cursor = null
PremiumGate ==
  /\ pc = "gate"
  /\ IF ~includes(format, FORMAT_SUFFIX_INCLUDE_ARCHIVED)
     THEN /\ pc' = "emit"
          /\ UNCHANGED <<format, error, res>>
     ELSE IF syncData.kind = "null" \/ ~syncData.user.present
     THEN /\ error' = TypeError
          /\ pc' = "catch"
          /\ UNCHANGED <<format, res>>
     ELSE IF ~IsPremium(syncData)
     THEN /\ res' = renderErrorPage(res, MsgPremium, NoError)
          /\ pc' = "done"
          /\ UNCHANGED <<format, error>>
     ELSE /\ format' = replace(format, FORMAT_SUFFIX_INCLUDE_ARCHIVED)
          /\ pc' = "fetch"
          /\ UNCHANGED <<error, res>>
  /\ UNCHANGED <<reqFormat, syncData, cursor, pending, completedData,
                 requests, served, last, live, passes>>

\* a slip: the items are not merged
mergeCompletedOnly(sd, completed) == [sd EXCEPT !.completed = completed]

\* syncData.completed = completedData; syncData.items = items.concat(...)
mergeCompleted(sd, completed) ==
  [sd EXCEPT !.completed = completed,
             !.items = @ \o completed.results]

MergeCompleted ==
  /\ pc = "fetched"
  /\ syncData' = mergeCompleted(syncData, completedData)
  /\ pc' = "emit"
  /\ UNCHANGED <<reqFormat, format, cursor, pending, completedData, error,
                 res, requests, served, last, live, passes>>

\* the three transforms of the csv branch, in the order of the code
csvItems(sd) ==
  LET named == [sd EXCEPT !.items = convertProjectNames(sd)]
      users == [named EXCEPT !.items = convertUserNames(named)]
  IN  users

\* the format branch; csvFails is the outcome of the json2csv encoder
EmitExport ==
  /\ pc = "emit"
  /\ \E csvFails \in BOOLEAN :
       IF format = <<"json">>
       THEN /\ res' = sendFile(res, "json", "todoist.json")
            /\ pc' = "done"
            /\ UNCHANGED <<syncData, error>>
       ELSE IF format # <<"csv">>
       THEN /\ pc' = "done"
            /\ UNCHANGED <<syncData, error, res>>
       ELSE IF syncData.kind = "null"
       THEN /\ error' = TypeError
            /\ pc' = "catch"
            /\ UNCHANGED <<syncData, res>>
       ELSE IF escapeCommasThrows(csvItems(syncData))
       THEN /\ syncData' = csvItems(syncData)
            /\ error' = TypeError
            /\ pc' = "catch"
            /\ UNCHANGED res
       ELSE /\ syncData' = [syncData EXCEPT
                              !.items = escapeCommas(csvItems(syncData))]
            /\ res' = IF csvFails
                      THEN renderErrorPage(res, MsgCsv,
                             Thrown("Error", "json2csv", 0))
                      ELSE sendFile(res, "csv", "todoist.csv")
            /\ pc' = "done"
            /\ UNCHANGED error
  /\ UNCHANGED <<reqFormat, format, cursor, pending, completedData,
                 requests, served, last, live, passes>>

\* a slip: one message for every failure
catchMessageFixed(err) == MsgCouldNotFetch

\* error.message || "Unexpected error."
catchMessage(err) == IF err.message # "" THEN err.message ELSE MsgUnexpected

\* catch (error) of the /download handler
HandlerCatch ==
  /\ pc = "catch"
  /\ res' = renderErrorPage(res, catchMessage(error), error)
  /\ pc' = "done"
  /\ UNCHANGED <<reqFormat, format, syncData, cursor, pending,
                 completedData, error, requests, served, last, live, passes>>

\* the default of the parameter: format = "csv"
defaultFormat(f) == IF f.present THEN f.val ELSE <<"csv">>

\* A download request has arrived: exportData(res, token, format = "csv")
\* has been called and its sync call is in flight.
Init ==
  /\ pc = "sync"
  /\ reqFormat \in Formats
  /\ format = defaultFormat(reqFormat)
  /\ syncData = NoData("unset")
  /\ cursor = NULL
  /\ pending = <<>>
  /\ completedData = NoCompleted
  /\ error = NoError
  /\ res = NoResponse
  /\ requests = 0
  /\ served = <<>>
  /\ last = "none"
  /\ live = <<>>
  /\ passes = 0

Next ==
  \/ SyncResponse
  \/ PremiumGate
  \/ FetchPage
  \/ MergeCompleted
  \/ EmitExport
  \/ HandlerCatch

Spec == Init /\ [][Next]_vars

(***************************************************************************)
(* fetchCompleted(token) on its own, against every source.  A request      *)
(* that was sent settles: the promise is resolved or rejected.             *)
(***************************************************************************)
FetchInit ==
  /\ pc = "fetch"
  /\ reqFormat = [present |-> TRUE, val |-> <<"json", "_all">>]
  /\ format = <<"json">>
  /\ syncData = NoData("unset")
  /\ cursor = NULL
  /\ pending = <<>>
  /\ completedData = NoCompleted
  /\ error = NoError
  /\ res = NoResponse
  /\ requests = 0
  /\ served = <<>>
  /\ last = "none"
  /\ live = <<>>
  /\ passes = 0

FetchNext == FetchPage

FetchSpec == FetchInit /\ [][FetchNext]_vars /\ WF_vars(FetchPage)

(***************************************************************************)
(* The CSV transforms on their own, over every snapshot of the domains:    *)
(* convertProjectNames (once or more), convertUserNames, escapeCommas.     *)
(***************************************************************************)
CsvInit ==
  /\ pc = "names"
  /\ reqFormat = [present |-> TRUE, val |-> <<"csv">>]
  /\ format = <<"csv">>
  /\ \E items \in SeqsUpTo(ItemDomain, MaxItems),
        projects \in SeqsUpTo(ProjectDomain, MaxProjects) :
       /\ syncData = Snapshot(NoUser, items, projects)
       /\ live = items
  /\ cursor = NULL
  /\ pending = <<>>
  /\ completedData = NoCompleted
  /\ error = NoError
  /\ res = NoResponse
  /\ requests = 0
  /\ served = <<>>
  /\ last = "none"
  /\ passes = 0

ApplyProjectNames ==
  /\ pc = "names"
  /\ passes < MaxPasses
  /\ syncData' = [syncData EXCEPT !.items = convertProjectNames(syncData)]
  /\ passes' = passes + 1
  /\ UNCHANGED <<pc, reqFormat, format, cursor, pending, completedData,
                 error, res, requests, served, last, live>>

ApplyUserNames ==
  /\ pc = "names"
  /\ passes >= 1
  /\ syncData' = [syncData EXCEPT !.items = convertUserNames(syncData)]
  /\ pc' = "users"
  /\ UNCHANGED <<reqFormat, format, cursor, pending, completedData, error,
                 res, requests, served, last, live, passes>>

ApplyEscapeCommas ==
  /\ pc = "users"
  /\ IF escapeCommasThrows(syncData)
     THEN /\ error' = TypeError
          /\ pc' = "catch"
          /\ UNCHANGED syncData
     ELSE /\ syncData' = [syncData EXCEPT !.items = escapeCommas(syncData)]
          /\ pc' = "escaped"
          /\ UNCHANGED error
  /\ UNCHANGED <<reqFormat, format, cursor, pending, completedData, res,
                 requests, served, last, live, passes>>

CsvNext ==
  \/ ApplyProjectNames
  \/ ApplyUserNames
  \/ ApplyEscapeCommas

CsvSpec == CsvInit /\ [][CsvNext]_vars

(***************************************************************************)
(* Properties                                                              *)
(***************************************************************************)

\* C1: when every page but the last returned a cursor and no request
\* failed, fetchCompleted(token) resolves to the records of all the pages
\* served, in page order, none dropped, duplicated or reordered.
C1_ConcatenatesAllPages ==
  (pc = "fetched" /\ last = "stop") => completedData.results = served

C1_Witness ==
  /\ pc = "fetched"
  /\ last = "stop"
  /\ requests >= 2
  /\ Len(served) = 2
  /\ served[1] # served[2]
  /\ completedData.results = served

\* C2: when the request for page k fails, fetchCompleted raises nothing,
\* makes no further request (it is no longer at a page request) and
\* resolves to the records of pages 1..k-1 in order.
C2_FailureKeepsEarlierPages ==
  last = "fail" =>
    /\ pc = "fetched"
    /\ ~error.present
    /\ completedData.present
    /\ completedData.results = served

C2_Witness ==
  /\ last = "fail"
  /\ pc = "fetched"
  /\ requests = 2
  /\ Len(served) = 1
  /\ completedData.results = served

\* the include-archived modifier was requested
ArchivedRequested ==
  includes(defaultFormat(reqFormat), FORMAT_SUFFIX_INCLUDE_ARCHIVED)

\* the snapshot was fetched and its user.is_premium is false
UserNotPremium ==
  /\ syncData.kind = "object"
  /\ syncData.user.present
  /\ syncData.user.is_premium = FALSEV

\* C3: an include-archived export of a user whose is_premium is false
\* fails with the premium message; no completed-task request is ever made
\* and no file is sent.
C3_NonPremiumNeverFetchesCompleted ==
  (ArchivedRequested /\ UserNotPremium) =>
    /\ pc \in {"gate", "done"}
    /\ requests = 0
    /\ ~completedData.present
    /\ res.kind \in {"none", "error"}
    /\ pc = "done" => /\ res.sent = 1
                      /\ res.kind = "error"
                      /\ res.message = MsgPremium

C3_Witness ==
  /\ ArchivedRequested
  /\ UserNotPremium
  /\ pc = "done"
  /\ res.message = MsgPremium
  /\ requests = 0

\* C4: for a premium user's include-archived export, at emission
\* completed.results is the records of all fetched pages in order and
\* items is the live items followed by those records (json: as sent;
\* csv: before the transforms).
C4_CompletedMergedIntoItems ==
  (completedData.present /\ (pc = "emit" \/ (pc = "done" /\ res.kind = "json")))
    => /\ syncData.completed.present
       /\ syncData.completed.results = served
       /\ syncData.items = live \o served

C4_Witness ==
  /\ pc = "done"
  /\ res.kind = "json"
  /\ reqFormat.val = <<"json", "_all">>
  /\ requests = 2
  /\ Len(served) = 2
  /\ Len(live) >= 1
  /\ syncData.items = live \o served

\* the keys under which the project-name lookup answers
LookupKeys ==
  {toString(syncData.projects[j].id) : j \in 1..Len(syncData.projects)}
    \cup DOMAIN ObjectPrototype

\* C5 as stated: once convertProjectNames has been applied, applying it
\* again leaves the items as they are.
C5_Idempotent ==
  (pc = "names" /\ passes >= 1) =>
    convertProjectNames(syncData) = syncData.items

\* C5 amended: a further pass looks the resolved name up as an id: a name
\* that is no key of the lookup becomes undefined, and only an undefined
\* project_id stays as it is.
C5_SecondPassUnresolves ==
  (pc = "names" /\ passes >= 1) =>
    \A i \in 1..Len(syncData.items) :
      LET v == syncData.items[i].project_id
          w == convertProjectNames(syncData)[i].project_id
      IN  /\ toString(v) \notin LookupKeys => w = UNDEFINED
          /\ (v.t = "str" /\ v.s \notin LookupKeys) => w # v

C5_Witness ==
  /\ pc = "names"
  /\ passes = 1
  /\ Len(syncData.items) = 1
  /\ syncData.items[1].project_id = Str(<<"Work">>)
  /\ convertProjectNames(syncData)[1].project_id = UNDEFINED

\* the string form the claim expects of a content value
ExpectedContent(c) ==
  <<QUOTE>> \o
    (CASE c = NULL -> <<"null">>
       [] c = UNDEFINED -> <<"undefined">>
       [] c = TRUEV -> <<"true">>
       [] c = FALSEV -> <<"false">>
       [] OTHER -> c.s)
    \o <<QUOTE>>

\* C6: escapeCommas never raises, and leaves every content as the string
\* form of the input in one pair of quotes, and labels as the quoted
\* comma-joined labels, or null when there are none.
C6_SanitizeTotal ==
  /\ pc # "catch"
  /\ pc = "escaped" =>
       \A i \in 1..Len(syncData.items) :
         /\ syncData.items[i].content.t = "str"
         /\ syncData.items[i].content.s = ExpectedContent(live[i].content)
         /\ IF live[i].labels.t = "arr" /\ live[i].labels.s # <<>>
            THEN /\ syncData.items[i].labels.t = "str"
                 /\ syncData.items[i].labels.s =
                      <<QUOTE>> \o Join(live[i].labels.s, COMMA) \o <<QUOTE>>
                 /\ syncData.items[i].labels.s # <<QUOTE, QUOTE>>
            ELSE syncData.items[i].labels = NULL

\* the snapshot fetch failed: callApi threw, or resolved to nothing usable
SnapshotThrew == error.name = "AxiosError"

\* C7 as stated: every failure of the snapshot fetch ends in the error
\* page "Could not fetch data from Todoist.".
C7_FailureSaysCouldNotFetch ==
  (pc = "done" /\ (SnapshotThrew \/ syncData.kind = "undefined")) =>
    /\ res.kind = "error"
    /\ res.message = MsgCouldNotFetch

\* C7 amended: a snapshot fetch that throws or resolves to undefined ends
\* in one error page, with no completed-task request, transform or file;
\* the message is "Could not fetch data from Todoist." when it resolved to
\* undefined and the error's own message (or "Unexpected error.") when it
\* threw.
C7_FailureRendersError ==
  (SnapshotThrew \/ syncData.kind = "undefined") =>
    /\ pc \in {"catch", "done"}
    /\ requests = 0
    /\ ~completedData.present
    /\ res.kind \in {"none", "error"}
    /\ pc = "done" =>
         /\ res.sent = 1
         /\ res.kind = "error"
         /\ res.message =
              IF syncData.kind = "undefined" THEN MsgCouldNotFetch
              ELSE IF error.message = "" THEN MsgUnexpected
              ELSE error.message

C7_Witness ==
  /\ pc = "done"
  /\ SnapshotThrew
  /\ res.kind = "error"
  /\ res.message = "Request failed with status code 401"

\* C8: the error page of the premium gate carries a 4xx status.
C8_PremiumGateStatus4xx ==
  (res.kind = "error" /\ res.message = MsgPremium) =>
    res.status \in 400..499

\* C9 as stated: fetchCompleted always terminates.
C9_AlwaysTerminates == <>(pc # "fetch")

\* C9 amended: fetchCompleted terminates unless every page the source
\* returns carries a truthy cursor; the first request that fails or
\* returns a falsy cursor ends it.
C9_TerminatesUnlessCursorForever ==
  [](last \in {"none", "more"}) \/ <>(pc # "fetch")

C9_Witness ==
  /\ pc = "fetched"
  /\ requests >= 3
  /\ last = "stop"

\* C10: every download request is answered exactly once, by a file or by
\* an error page.
C10_AnsweredExactlyOnce == pc = "done" => res.sent = 1
====
